---- MODULE Spec2Model ----
(***************************************************************************)
(* Model of src/src/backup.ts: one run of backup().  The run creates a     *)
(* temporary workspace, dumps and compresses the database, splits the      *)
(* compressed file when it is larger than CHUNK_SIZE, builds the manifest, *)
(* uploads the parts and then the manifest with retries, rolls back the    *)
(* uploaded files on a permanent upload failure, and finally removes the   *)
(* workspace.                                                              *)
(*                                                                         *)
(* File names are sequences of tokens (a token is a piece of text or one   *)
(* character), so that template strings, padStart and split("/").pop()     *)
(* are computed rather than assumed.  Sequences are 1-based, so the loop   *)
(* index i of the code is i+1 here.                                        *)
(***************************************************************************)
EXTENDS Integers, Sequences, FiniteSets, TLC

\* ------------------------------------------------------------------ bounds
\* The compressed file has at most MaxChunks full chunks plus a remainder.
MaxChunks == 2

\* --------------------------------------------------------- program constants
CHUNK_SIZE == 9 * 1024 * 1024
MAX_UPLOAD_RETRIES == 3
RETRY_DELAY_MS == 2000

\* ------------------------------------------------------------------ inputs
\* Remainders of the compressed size modulo CHUNK_SIZE (CHUNK_SIZE itself
\* gives the exact multiples).
Remainders == {1, 4005913, 5000000, CHUNK_SIZE}

\* Sizes the compressed file can have (gzip output is never empty).
Sizes == {k * CHUNK_SIZE + d : k \in 0..MaxChunks, d \in Remainders}

\* Messages the store client's errors can carry.
ErrorMessages == {"timeout", "rejected"}

\* -------------------------------------------------------------- pure helpers
Min(a, b) == IF a < b THEN a ELSE b

\* String(n) for n >= 0, as a sequence of digit characters.
DigitChar(d) == <<"0", "1", "2", "3", "4", "5", "6", "7", "8", "9">>[d + 1]

RECURSIVE NumberToString(_)
NumberToString(n) ==
    IF n < 10 THEN <<DigitChar(n)>>
    ELSE NumberToString(n \div 10) \o <<DigitChar(n % 10)>>

\* s.padStart(len, fill): fill is prepended until the length is reached; a
\* string that is already long enough is returned unchanged.
RECURSIVE padStart(_, _, _)
padStart(s, len, fill) ==
    IF Len(s) >= len THEN s ELSE padStart(<<fill>> \o s, len, fill)

\* path.split("/").pop(): the tokens after the last "/".
RECURSIVE SplitPop(_)
SplitPop(path) ==
    IF path = <<>> THEN <<>>
    ELSE IF path[Len(path)] = "/" THEN <<>>
    ELSE SplitPop(SubSeq(path, 1, Len(path) - 1)) \o <<path[Len(path)]>>

RECURSIVE SumSeq(_)
SumSeq(s) == IF s = <<>> THEN 0 ELSE s[1] + SumSeq(Tail(s))

\* ------------------------------------------------------------------- names
timestamp == <<"TS">>
filename == <<"backup-">> \o timestamp \o <<".sql">>
compressedFilename == filename \o <<".gz">>
tempDir == <<"/", "tmp", "/", "backup-">> \o timestamp
filepath == tempDir \o <<"/">> \o filename
compressedFilepath == tempDir \o <<"/">> \o compressedFilename
manifestName == <<"manifest.json">>
manifestPath == tempDir \o <<"/">> \o manifestName

\* `${baseFilename}.${String(partNumber).padStart(3, "0")}`
PartFilename(baseFilename, partNumber) ==
    baseFilename \o <<".">> \o padStart(NumberToString(partNumber), 3, "0")

\* `${outputDir}/${partFilename}`
PartPath(outputDir, partFilename) == outputDir \o <<"/">> \o partFilename

\* ------------------------------------------------------------------ errors
NoError == [kind |-> "none"]
StepError(k) == [kind |-> k]
\* An error thrown by the store client; its message is a piece of text.
StoreError(m) == [kind |-> "StoreError", message |-> <<m>>]

\* The bytes of a workspace file: the stream they belong to and the range
\* of that stream they cover.  A file left behind by a failed step holds an
\* unknown prefix, written as the empty range.
Bytes(stream, offset, length) == <<stream, offset, length>>
FileSize(content) == content[3]

\* The workspace after content is written to file.
Put(files, file, content) ==
    [n \in DOMAIN files \cup {file} |-> IF n = file THEN content ELSE files[n]]

\* The files without file.
Remove(files, file) == [n \in DOMAIN files \ {file} |-> files[n]]

\* A digest taken before any byte of the file was read.
calculateChecksumOfNothing(content) == <<"md5", Bytes("gz", 0, 0)>>

\* calculateChecksum: the md5 digest of the bytes the file holds.
calculateChecksum(content) == <<"md5", content>>

NoManifest == [originalFilename |-> <<>>, totalParts |-> 0, totalSize |-> 0,
               createdAt |-> <<>>, parts |-> <<>>]

VARIABLES
    pc,              \* position of the run in backup()
    tempDirExists,   \* the workspace directory exists on disk
    tempFiles,       \* the files in the workspace: name -> bytes
    compressedSize,  \* compressedStats.size
    needsSplit,      \* compressedStats.size > CHUNK_SIZE
    parts,           \* splitFile: paths of the parts written so far
    sizes,           \* splitFile: sizes of the parts written so far
    manifest,        \* the manifest under construction
    filesToUpload,   \* [path, name] records, in upload order
    i,               \* index of the part being uploaded / hashed (1-based)
    name,            \* uploadToCloudinaryWithRetry: the name parameter
    attempt,         \* uploadToCloudinaryWithRetry: attempt number
    lastError,       \* uploadToCloudinaryWithRetry: lastError
    callErrors,      \* history: errors of the failed attempts of this call
    uploadedFiles,   \* names recorded as uploaded
    caught,          \* the error caught by the inner catch, to be rethrown
    r,               \* deleteCloudinaryFiles: index of the next file
    remote,          \* names present in the run's remote folder
    trace,           \* history: remote operations and delays, in order
    deleteFailed,    \* history: names whose rollback delete failed
    failedStage,     \* history: the step at which the run failed, or "none"
    runError,        \* error thrown by backup(), NoError while none
    rmLog,           \* history: one entry per rm of the workspace, TRUE if it succeeded
    remoteBytes,     \* the files of the remote folder: name -> bytes
    rpc,             \* restore.sh: position of the script
    folder,          \* restore.sh: the files of the downloaded folder
    md5Available,    \* restore.sh: md5sum or md5 is installed
    ORIGINAL_FILENAME, \* restore.sh: parsed from the manifest
    TOTAL_PARTS,     \* restore.sh: parsed from the manifest
    rIdx,            \* restore.sh: position in the output of seq
    CHECKSUMS_OK,    \* restore.sh: no mismatch seen so far
    merged,          \* restore.sh: the merge step was reached
    exitCode         \* restore.sh: exit status, -1 while running

vars == <<pc, tempDirExists, tempFiles, compressedSize, needsSplit, parts,
          sizes, manifest, filesToUpload, i, name, attempt, lastError, callErrors,
          uploadedFiles, caught, r, remote, trace, deleteFailed, failedStage,
          runError, rmLog, remoteBytes, rpc, folder, md5Available,
          ORIGINAL_FILENAME, TOTAL_PARTS, rIdx, CHECKSUMS_OK, merged,
          exitCode>>

prepVars == <<parts, sizes, manifest, filesToUpload, needsSplit,
              compressedSize>>
uploadVars == <<name, attempt, lastError, callErrors, uploadedFiles, caught, r,
                remote, remoteBytes, trace, deleteFailed>>
restoreVars == <<rpc, folder, md5Available, ORIGINAL_FILENAME, TOTAL_PARTS,
                 rIdx, CHECKSUMS_OK, merged, exitCode>>
backupVars == <<pc, tempDirExists, tempFiles, i, failedStage, runError, rmLog,
                prepVars, uploadVars>>

Init ==
    /\ pc = "mkdir"
    /\ tempDirExists = FALSE
    /\ tempFiles = <<>>
    /\ compressedSize = 0
    /\ needsSplit = FALSE
    /\ parts = <<>>
    /\ sizes = <<>>
    /\ manifest = NoManifest
    /\ filesToUpload = <<>>
    /\ i = 1
    /\ name = <<>>
    /\ attempt = 1
    /\ lastError = NoError
    /\ callErrors = <<>>
    /\ uploadedFiles = <<>>
    /\ caught = NoError
    /\ r = 1
    /\ remote = {}
    /\ trace = <<>>
    /\ deleteFailed = {}
    /\ failedStage = "none"
    /\ runError = NoError
    /\ rmLog = <<>>
    /\ remoteBytes = <<>>
    /\ rpc = "idle"
    /\ folder = <<>>
    /\ md5Available = TRUE
    /\ ORIGINAL_FILENAME = <<>>
    /\ TOTAL_PARTS = 0
    /\ rIdx = 1
    /\ CHECKSUMS_OK = TRUE
    /\ merged = FALSE
    /\ exitCode = -1

\* An outer catch that logs the error and does not rethrow it.
ThrowSwallowed(stage, e) ==
    /\ failedStage' = stage
    /\ runError' = NoError
    /\ pc' = "finally"

\* An error thrown inside the outer try: the outer catch logs and rethrows
\* it, and control passes to the finally block.
Throw(stage, e) ==
    /\ failedStage' = stage
    /\ runError' = e
    /\ pc' = "finally"

NoThrow == UNCHANGED <<failedStage, runError>>

\* await mkdir(tempDir, { recursive: true })
Mkdir ==
    /\ pc = "mkdir"
    /\ \/ /\ tempDirExists' = TRUE
          /\ pc' = "dump"
          /\ NoThrow
       \/ /\ Throw("mkdir", StepError("MkdirFailed"))
          /\ UNCHANGED tempDirExists
    /\ UNCHANGED <<tempFiles, i, rmLog>>
    /\ UNCHANGED prepVars
    /\ UNCHANGED uploadVars
    /\ UNCHANGED restoreVars

\* await dumpDatabase(filepath): on failure the dump file may or may not
\* have been created.
DumpDatabase ==
    /\ pc = "dump"
    /\ \/ /\ tempFiles' = Put(tempFiles, filename, Bytes("sql", 0, 1))
          /\ pc' = "compress"
          /\ NoThrow
       \/ /\ Throw("dump", StepError("DumpFailed"))
          /\ \E partial \in BOOLEAN :
                tempFiles' = IF partial
                             THEN Put(tempFiles, filename, Bytes("sql", 0, 0))
                             ELSE tempFiles
    /\ UNCHANGED <<tempDirExists, i, rmLog>>
    /\ UNCHANGED prepVars
    /\ UNCHANGED uploadVars
    /\ UNCHANGED restoreVars

\* await compressFile(filepath, compressedFilepath): the destination is
\* created when the write stream opens, so a failure leaves it partial.
CompressFile ==
    /\ pc = "compress"
    /\ \/ /\ \E s \in Sizes :
                tempFiles' = Put(tempFiles, compressedFilename,
                                 Bytes("gz", 0, s))
          /\ pc' = "stat"
          /\ NoThrow
       \/ /\ Throw("compress", StepError("CompressionFailed"))
          /\ \E partial \in BOOLEAN :
                tempFiles' = IF partial
                             THEN Put(tempFiles, compressedFilename,
                                      Bytes("gz", 0, 0))
                             ELSE tempFiles
    /\ UNCHANGED <<tempDirExists, i, rmLog>>
    /\ UNCHANGED prepVars
    /\ UNCHANGED uploadVars
    /\ UNCHANGED restoreVars

\* compressedStats.size > CHUNK_SIZE
NeedsSplit(size) == size > CHUNK_SIZE

\* const compressedStats = await stat(compressedFilepath)
StatCompressed ==
    /\ pc = "stat"
    /\ \/ /\ compressedSize' = FileSize(tempFiles[compressedFilename])
          /\ needsSplit' = NeedsSplit(compressedSize')
          /\ pc' = IF needsSplit' THEN "splitStat" ELSE "checksumWhole"
          /\ NoThrow
       \/ /\ Throw("stat", StepError("StatFailed"))
          /\ UNCHANGED <<needsSplit, compressedSize>>
    /\ UNCHANGED <<tempDirExists, tempFiles, i, rmLog>>
    /\ UNCHANGED <<parts, sizes, manifest, filesToUpload>>
    /\ UNCHANGED uploadVars
    /\ UNCHANGED restoreVars

\* ---------------------------------------------------------------- splitFile
\* const fileStats = await stat(inputPath)
SplitStat ==
    /\ pc = "splitStat"
    /\ \/ /\ pc' = "split"
          /\ NoThrow
       \/ Throw("split", StepError("SegmentationFailed"))
    /\ UNCHANGED <<tempDirExists, tempFiles, i, rmLog>>
    /\ UNCHANGED prepVars
    /\ UNCHANGED uploadVars
    /\ UNCHANGED restoreVars

\* A read stream without the highWaterMark: the rest of the file at once.
ChunkLengthUnlimited(remaining) == remaining

\* The length of the next chunk of a read stream with highWaterMark
\* CHUNK_SIZE when `remaining` bytes of the file are still unread.
ChunkLength(remaining) == Min(CHUNK_SIZE, remaining)

\* One iteration of `for await (const chunk of inputStream)`: read the next
\* chunk, write it to its own part file, record its path and size.
SplitChunk ==
    /\ pc = "split"
    /\ LET offset == SumSeq(sizes)
           remaining == FileSize(tempFiles[compressedFilename]) - offset
           partNumber == Len(parts) + 1
           partFilename == PartFilename(compressedFilename, partNumber)
           partPath == PartPath(tempDir, partFilename)
           chunk == Bytes("gz", offset, ChunkLength(remaining))
       IN /\ remaining > 0
          /\ \/ /\ tempFiles' = Put(tempFiles, partFilename, chunk)
                /\ parts' = Append(parts, partPath)
                /\ sizes' = Append(sizes, FileSize(chunk))
                /\ pc' = "split"
                /\ NoThrow
             \/ /\ Throw("split", StepError("SegmentationFailed"))
                /\ \E partial \in BOOLEAN :
                      tempFiles' = IF partial
                                   THEN Put(tempFiles, partFilename,
                                            Bytes("gz", offset, 0))
                                   ELSE tempFiles
                /\ UNCHANGED <<parts, sizes>>
    /\ UNCHANGED <<tempDirExists, i, rmLog>>
    /\ UNCHANGED <<manifest, filesToUpload, needsSplit, compressedSize>>
    /\ UNCHANGED uploadVars
    /\ UNCHANGED restoreVars

\* A total computed as the number of parts times the chunk size.
TotalSizeByCount(ss) == Len(ss) * CHUNK_SIZE

\* sizes.reduce((a, b) => a + b, 0)
TotalSize(ss) == SumSeq(ss)

\* The stream ends; splitFile returns { parts, sizes } and backup() starts
\* the manifest of the split branch with an empty parts list.
SplitReturn ==
    /\ pc = "split"
    /\ FileSize(tempFiles[compressedFilename]) - SumSeq(sizes) <= 0
    /\ manifest' = [originalFilename |-> compressedFilename,
                    totalParts |-> Len(parts),
                    totalSize |-> TotalSize(sizes),
                    createdAt |-> timestamp,
                    parts |-> <<>>]
    /\ i' = 1
    /\ pc' = "checksum"
    /\ NoThrow
    /\ UNCHANGED <<tempDirExists, tempFiles, rmLog>>
    /\ UNCHANGED <<parts, sizes, filesToUpload, needsSplit, compressedSize>>
    /\ UNCHANGED uploadVars
    /\ UNCHANGED restoreVars

\* The manifest entry of a part.
PartEntry(partFilename, size, checksum) ==
    [filename |-> partFilename, size |-> size, checksum |-> checksum]

\* One iteration of the checksum loop of the split branch.
ChecksumPart ==
    /\ pc = "checksum"
    /\ i <= Len(parts)
    /\ LET partPath == parts[i]
           partFilename == SplitPop(partPath)
       IN \/ /\ manifest' =
                   [manifest EXCEPT !.parts =
                       Append(@, PartEntry(partFilename, sizes[i],
                                  calculateChecksum(tempFiles[partFilename])))]
             /\ filesToUpload' =
                   Append(filesToUpload,
                          [path |-> partPath, name |-> partFilename])
             /\ i' = i + 1
             /\ pc' = "checksum"
             /\ NoThrow
          \/ /\ Throw("checksum", StepError("ChecksumFailed"))
             /\ UNCHANGED <<manifest, filesToUpload, i>>
    /\ UNCHANGED <<tempDirExists, tempFiles, rmLog>>
    /\ UNCHANGED <<parts, sizes, needsSplit, compressedSize>>
    /\ UNCHANGED uploadVars
    /\ UNCHANGED restoreVars

\* The unsplit branch: checksum of the whole compressed file, manifest with
\* that file as its only part.
ChecksumWhole ==
    /\ pc = "checksumWhole"
    /\ \/ /\ manifest' =
                [originalFilename |-> compressedFilename,
                 totalParts |-> 1,
                 totalSize |-> compressedSize,
                 createdAt |-> timestamp,
                 parts |-> <<PartEntry(compressedFilename, compressedSize,
                        calculateChecksum(tempFiles[compressedFilename]))>>]
          /\ filesToUpload' =
                Append(filesToUpload,
                       [path |-> compressedFilepath,
                        name |-> compressedFilename])
          /\ pc' = "writeManifest"
          /\ NoThrow
       \/ /\ Throw("checksum", StepError("ChecksumFailed"))
          /\ UNCHANGED <<manifest, filesToUpload>>
    /\ UNCHANGED <<tempDirExists, tempFiles, i, rmLog>>
    /\ UNCHANGED <<parts, sizes, needsSplit, compressedSize>>
    /\ UNCHANGED uploadVars
    /\ UNCHANGED restoreVars

\* await writeFile(manifestPath, JSON.stringify(manifest, null, 2)); the
\* upload loop then starts at its first file.
WriteManifest ==
    /\ \/ pc = "writeManifest"
       \/ pc = "checksum" /\ i > Len(parts)
    /\ \/ /\ tempFiles' = Put(tempFiles, manifestName, <<"json", manifest>>)
          /\ i' = 1
          /\ pc' = "uploadLoop"
          /\ NoThrow
       \/ /\ Throw("writeManifest", StepError("ManifestWriteFailed"))
          /\ \E partial \in BOOLEAN :
                tempFiles' = IF partial
                             THEN Put(tempFiles, manifestName, <<"json">>)
                             ELSE tempFiles
          /\ UNCHANGED i
    /\ UNCHANGED <<tempDirExists, rmLog>>
    /\ UNCHANGED prepVars
    /\ UNCHANGED uploadVars
    /\ UNCHANGED restoreVars

\* ------------------------------------------------------------------- upload
\* The exit test with the last file left out (i < length - 1).
PartsLoopDoneEarly(idx, files) == idx >= Len(files)

\* The exit test of `for (let i = 0; i < filesToUpload.length; i++)`.
PartsLoopDone(idx, files) == idx > Len(files)

\* The start of a call of uploadToCloudinaryWithRetry.
BeginCall(n) ==
    /\ name' = n
    /\ attempt' = 1
    /\ lastError' = NoError
    /\ callErrors' = <<>>
    /\ pc' = "attempt"

\* The loop takes its next part and calls uploadToCloudinaryWithRetry.
BeginPartUpload ==
    /\ pc = "uploadLoop"
    /\ ~PartsLoopDone(i, filesToUpload)
    /\ BeginCall(filesToUpload[i].name)
    /\ NoThrow
    /\ UNCHANGED <<tempDirExists, tempFiles, i, rmLog>>
    /\ UNCHANGED prepVars
    /\ UNCHANGED <<uploadedFiles, caught, r, remote, remoteBytes, trace,
                   deleteFailed>>
    /\ UNCHANGED restoreVars

\* The loop is over: step 7 calls uploadToCloudinaryWithRetry for the
\* manifest.
BeginManifestUpload ==
    /\ pc = "uploadLoop"
    /\ PartsLoopDone(i, filesToUpload)
    /\ BeginCall(manifestName)
    /\ NoThrow
    /\ UNCHANGED <<tempDirExists, tempFiles, i, rmLog>>
    /\ UNCHANGED prepVars
    /\ UNCHANGED <<uploadedFiles, caught, r, remote, remoteBytes, trace,
                   deleteFailed>>
    /\ UNCHANGED restoreVars

\* The call in progress is the manifest's (step 7), not a part's.
ManifestStep == PartsLoopDone(i, filesToUpload)

\* The loop test with one attempt too many.
AttemptAllowedOneMore(a) == a <= MAX_UPLOAD_RETRIES + 1

\* The loop test written with < instead of <=.
AttemptAllowedStrict(a) == a < MAX_UPLOAD_RETRIES

\* `attempt <= MAX_UPLOAD_RETRIES`
AttemptAllowed(a) == a <= MAX_UPLOAD_RETRIES

\* A delay after every failed attempt, the last one included.
DelayAlways(a) == a <= MAX_UPLOAD_RETRIES

\* `if (attempt < MAX_UPLOAD_RETRIES)` before the delay
DelayBeforeRetry(a) == a < MAX_UPLOAD_RETRIES

\* An assignment that keeps the first error (lastError ??= error).
RecordFirstError(previous, error) ==
    IF previous = NoError THEN error ELSE previous

\* `lastError = error as Error` in the catch of an attempt
RecordError(previous, error) == error

UploadEvent(n, ok) == [op |-> "upload", name |-> n, ok |-> ok]
SleepEvent(n) == [op |-> "sleep", name |-> n, ms |-> RETRY_DELAY_MS]
DeleteEvent(n, ok) == [op |-> "delete", name |-> n, ok |-> ok]

\* The manifest's success falling into the rollback of its catch block.
AfterManifestUploadedRollback == "rollback"

\* The path parameter of the call in progress.
CallPath == IF ManifestStep THEN manifestPath ELSE filesToUpload[i].path

\* A run that records the parts but not the manifest.
PushUploadedPartsOnly(uploaded, n) ==
    IF n = manifestName THEN uploaded ELSE Append(uploaded, n)

\* uploadedFiles.push(name) after the call returned
PushUploaded(uploaded, n) == Append(uploaded, n)

\* Where backup() continues after a successful upload of the manifest.
AfterManifestUploaded == "finally"

\* One attempt: cloudinary.uploader.upload either stores the file and
\* returns, or throws.  On success the call returns and backup() records
\* the name; on failure the error is kept and a delay may follow.
UploadAttempt ==
    /\ pc = "attempt"
    /\ \/ /\ remote' = remote \cup {name}
          /\ remoteBytes' = Put(remoteBytes, name, tempFiles[SplitPop(CallPath)])
          /\ trace' = Append(trace, UploadEvent(name, TRUE))
          /\ uploadedFiles' = PushUploaded(uploadedFiles, name)
          /\ IF ManifestStep
             THEN /\ pc' = AfterManifestUploaded
                  /\ UNCHANGED i
             ELSE /\ pc' = "uploadLoop"
                  /\ i' = i + 1
          /\ UNCHANGED <<lastError, callErrors>>
       \/ /\ \E m \in ErrorMessages :
                /\ lastError' = RecordError(lastError, StoreError(m))
                /\ callErrors' = Append(callErrors, StoreError(m))
          /\ trace' = Append(trace, UploadEvent(name, FALSE))
          /\ pc' = IF DelayBeforeRetry(attempt) THEN "sleep" ELSE "retry"
          /\ UNCHANGED <<remote, remoteBytes, uploadedFiles, i>>
    /\ NoThrow
    /\ UNCHANGED <<tempDirExists, tempFiles, rmLog>>
    /\ UNCHANGED prepVars
    /\ UNCHANGED <<name, attempt, caught, r, deleteFailed>>
    /\ UNCHANGED restoreVars

\* await sleep(RETRY_DELAY_MS)
Sleep ==
    /\ pc = "sleep"
    /\ trace' = Append(trace, SleepEvent(name))
    /\ pc' = "retry"
    /\ NoThrow
    /\ UNCHANGED <<tempDirExists, tempFiles, i, rmLog>>
    /\ UNCHANGED prepVars
    /\ UNCHANGED <<name, attempt, lastError, callErrors, uploadedFiles,
                   caught, r, remote, remoteBytes, deleteFailed>>
    /\ UNCHANGED restoreVars

\* new Error(`Failed to upload after ${MAX_UPLOAD_RETRIES} attempts:
\* ${lastError?.message}`)
ExhaustedError(last) ==
    [kind |-> "Error",
     message |-> <<"Failed to upload after ">>
                 \o NumberToString(MAX_UPLOAD_RETRIES)
                 \o <<" attempts: ">> \o last.message]

\* attempt++ and the loop test: either the next attempt starts, or the
\* call throws and the catch around it in backup() starts the rollback.
RetryOrThrow ==
    /\ pc = "retry"
    /\ attempt' = attempt + 1
    /\ IF AttemptAllowed(attempt')
       THEN /\ pc' = "attempt"
            /\ UNCHANGED <<caught, r>>
       ELSE /\ caught' = ExhaustedError(lastError)
            /\ r' = 1
            /\ pc' = "rollback"
    /\ NoThrow
    /\ UNCHANGED <<tempDirExists, tempFiles, i, rmLog>>
    /\ UNCHANGED prepVars
    /\ UNCHANGED <<name, lastError, callErrors, uploadedFiles, remote,
                   remoteBytes, trace, deleteFailed>>
    /\ UNCHANGED restoreVars

\* ----------------------------------------------------------------- rollback
\* The rollback called with all uploaded files but the last one.
RollbackFilesButLast(uploaded) == SubSeq(uploaded, 1, Len(uploaded) - 1)

\* The files deleteCloudinaryFiles is called with.
RollbackFiles(uploaded) == uploaded

\* A loop whose first failed delete ends the rollback.
NextDeleteAbort(idx, ok, fileNames) ==
    IF ok THEN idx + 1 ELSE Len(fileNames) + 1

\* The index of the file the `for ... of` loop takes after a delete that
\* succeeded (ok) or threw and was caught (~ok).
NextDelete(idx, ok, fileNames) == idx + 1

\* One iteration of the loop of deleteCloudinaryFiles: destroy either
\* removes the file or throws, and the catch only logs a warning.
RollbackDelete ==
    /\ pc = "rollback"
    /\ r <= Len(RollbackFiles(uploadedFiles))
    /\ LET fileName == RollbackFiles(uploadedFiles)[r]
       IN \E ok \in BOOLEAN :
             /\ remote' = IF ok THEN remote \ {fileName} ELSE remote
             /\ remoteBytes' = IF ok THEN Remove(remoteBytes, fileName)
                               ELSE remoteBytes
             /\ deleteFailed' = IF ok THEN deleteFailed
                                ELSE deleteFailed \cup {fileName}
             /\ trace' = Append(trace, DeleteEvent(fileName, ok))
             /\ r' = NextDelete(r, ok, RollbackFiles(uploadedFiles))
    /\ pc' = "rollback"
    /\ NoThrow
    /\ UNCHANGED <<tempDirExists, tempFiles, i, rmLog>>
    /\ UNCHANGED prepVars
    /\ UNCHANGED <<name, attempt, lastError, callErrors, uploadedFiles,
                   caught>>
    /\ UNCHANGED restoreVars

\* A rollback that swallows the upload error instead of rethrowing it.
RethrownNothing(uploadError) == NoError

\* The error backup() rethrows after the rollback.
Rethrown(uploadError) == uploadError

\* A catch block without `throw error`: the loop goes on with the next file.
RollbackNoRethrow ==
    /\ pc = "rollback"
    /\ r > Len(RollbackFiles(uploadedFiles))
    /\ pc' = "uploadLoop"
    /\ i' = i + 1
    /\ NoThrow
    /\ UNCHANGED <<tempDirExists, tempFiles, rmLog>>
    /\ UNCHANGED prepVars
    /\ UNCHANGED uploadVars
    /\ UNCHANGED restoreVars

\* deleteCloudinaryFiles returns; `throw error` rethrows the upload error.
RollbackRethrow ==
    /\ pc = "rollback"
    /\ r > Len(RollbackFiles(uploadedFiles))
    /\ Throw("upload", Rethrown(caught))
    /\ UNCHANGED <<tempDirExists, tempFiles, i, rmLog>>
    /\ UNCHANGED prepVars
    /\ UNCHANGED uploadVars
    /\ UNCHANGED restoreVars

\* ------------------------------------------------------------------ cleanup
\* A cleanup placed at the end of the try block: it runs only when no
\* error was thrown.
CleanupRunsOnSuccess(e) == e = NoError

\* Whether the finally block calls cleanupTempDir after a run that ended
\* with error e (NoError for a successful run).
CleanupRuns(e) == TRUE

\* finally { await cleanupTempDir(tempDir) }: rm removes the directory with
\* everything in it, or throws, and the catch ignores the error.
CleanupTempDir ==
    /\ pc = "finally"
    /\ IF CleanupRuns(runError)
       THEN \/ /\ tempDirExists' = FALSE
               /\ tempFiles' = <<>>
               /\ rmLog' = Append(rmLog, TRUE)
            \/ /\ tempDirExists
               /\ rmLog' = Append(rmLog, FALSE)
               /\ UNCHANGED <<tempDirExists, tempFiles>>
       ELSE UNCHANGED <<tempDirExists, tempFiles, rmLog>>
    /\ pc' = "done"
    /\ NoThrow
    /\ UNCHANGED i
    /\ UNCHANGED prepVars
    /\ UNCHANGED uploadVars
    /\ UNCHANGED restoreVars

\* --------------------------------------------------------------- restore.sh
\* The value of a digit character.
DigitVal(c) == CHOOSE d \in 0..9 : DigitChar(d) = c

\* `seq -w 1 n`: the numbers 1..n, each padded with zeros to the width of n.
SeqW(n) ==
    [k \in 1..n |-> padStart(NumberToString(k), Len(NumberToString(n)), "0")]

\* The number a digit string denotes in the given base.
RECURSIVE ValueIn(_, _)
ValueIn(s, base) ==
    IF s = <<>> THEN 0
    ELSE ValueIn(SubSeq(s, 1, Len(s) - 1), base) * base + DigitVal(s[Len(s)])

\* printf "%03d" arg: bash reads the argument as a C constant, so a leading
\* zero makes it octal and a digit 8 or 9 in it is an error; the value is
\* printed in decimal, padded with zeros to 3 digits.
Printf03d(arg) ==
    IF Len(arg) > 1 /\ arg[1] = "0"
    THEN IF \E k \in 1..Len(arg) : DigitVal(arg[k]) >= 8
         THEN [ok |-> FALSE, text |-> <<"0", "0", "0">>]
         ELSE [ok |-> TRUE,
               text |-> padStart(NumberToString(ValueIn(arg, 8)), 3, "0")]
    ELSE [ok |-> TRUE,
          text |-> padStart(NumberToString(ValueIn(arg, 10)), 3, "0")]

\* PART_FILE="${ORIGINAL_FILENAME}.${PART_NUM}"
PART_FILE(original, partNum) == original \o <<".">> \o partNum

\* The checksum the script greps from the manifest for a part file: the
\* checksum of the entry with that filename, or the empty string.
ExpectedChecksum(doc, partFile) ==
    LET hits == {j \in 1..Len(doc.parts) : doc.parts[j].filename = partFile}
    IN IF hits = {} THEN <<>>
       ELSE doc.parts[CHOOSE j \in hits : TRUE].checksum

\* md5sum "$PART_FILE" | cut -d' ' -f1
Md5Sum(content) == <<"md5", content>>

\* The bytes of a file damaged in storage or transfer.
Corrupt == Bytes("corrupt", 0, 0)

\* The ways a downloaded copy can differ from the remote folder: nothing,
\* one part missing, one part corrupted.  A folder without manifest is
\* taken as it is, the script stops before it looks at any part.
Damages(files) ==
    {<<"none", <<>>>>}
        \cup IF manifestName \in DOMAIN files
             THEN {<<kind, n>> : kind \in {"missing", "corrupt"},
                                 n \in DOMAIN files \ {manifestName}}
             ELSE {}

\* Whether the checksum tool can be installed or not on the user's machine.
Tools(files) == IF manifestName \in DOMAIN files THEN BOOLEAN ELSE {TRUE}

Damaged(files, damage) ==
    IF damage[1] = "missing" THEN Remove(files, damage[2])
    ELSE IF damage[1] = "corrupt" THEN Put(files, damage[2], Corrupt)
    ELSE files

\* The user downloads the backup folder of a finished run and copies
\* restore.sh into it.
Download ==
    /\ pc = "done"
    /\ rpc = "idle"
    /\ \E damage \in Damages(remoteBytes) :
          folder' = Damaged(remoteBytes, damage)
    /\ \E tool \in Tools(remoteBytes) : md5Available' = tool
    /\ rpc' = "start"
    /\ UNCHANGED <<ORIGINAL_FILENAME, TOTAL_PARTS, rIdx, CHECKSUMS_OK, merged,
                   exitCode>>
    /\ UNCHANGED backupVars

\* The manifest check and the parsing of the manifest.
RestoreStart ==
    /\ rpc = "start"
    /\ IF manifestName \notin DOMAIN folder
       THEN /\ rpc' = "exit"
            /\ exitCode' = 1
            /\ UNCHANGED <<ORIGINAL_FILENAME, TOTAL_PARTS, rIdx,
                           CHECKSUMS_OK>>
       ELSE /\ ORIGINAL_FILENAME' = folder[manifestName][2].originalFilename
            /\ TOTAL_PARTS' = folder[manifestName][2].totalParts
            /\ rIdx' = 1
            /\ CHECKSUMS_OK' = TRUE
            /\ rpc' = "verify"
            /\ UNCHANGED exitCode
    /\ UNCHANGED <<folder, md5Available, merged>>
    /\ UNCHANGED backupVars

\* One iteration of the verification loop.
RestoreVerifyPart ==
    /\ rpc = "verify"
    /\ rIdx <= Len(SeqW(TOTAL_PARTS))
    /\ LET PART_NUM == Printf03d(SeqW(TOTAL_PARTS)[rIdx])
           partFile == PART_FILE(ORIGINAL_FILENAME, PART_NUM.text)
           EXPECTED_CHECKSUM ==
               ExpectedChecksum(folder[manifestName][2], partFile)
           ACTUAL_CHECKSUM ==
               IF md5Available THEN Md5Sum(folder[partFile])
               ELSE EXPECTED_CHECKSUM
       IN IF ~PART_NUM.ok \/ partFile \notin DOMAIN folder
          THEN /\ rpc' = "exit"
               /\ exitCode' = 1
               /\ UNCHANGED <<rIdx, CHECKSUMS_OK>>
          ELSE /\ CHECKSUMS_OK' =
                     (CHECKSUMS_OK /\ EXPECTED_CHECKSUM = ACTUAL_CHECKSUM)
               /\ rIdx' = rIdx + 1
               /\ UNCHANGED <<rpc, exitCode>>
    /\ UNCHANGED <<folder, md5Available, ORIGINAL_FILENAME, TOTAL_PARTS,
                   merged>>
    /\ UNCHANGED backupVars

\* A script that reports the mismatches but merges all the same.
RestoreVerdictAlwaysMerge ==
    /\ rpc = "verify"
    /\ rIdx > Len(SeqW(TOTAL_PARTS))
    /\ rpc' = "merge"
    /\ UNCHANGED <<folder, md5Available, ORIGINAL_FILENAME, TOTAL_PARTS,
                   rIdx, CHECKSUMS_OK, merged, exitCode>>
    /\ UNCHANGED backupVars

\* After the loop: `if [ "$CHECKSUMS_OK" = false ]` exits with 1, otherwise
\* the script goes on to the merge.
RestoreVerdict ==
    /\ rpc = "verify"
    /\ rIdx > Len(SeqW(TOTAL_PARTS))
    /\ IF CHECKSUMS_OK
       THEN rpc' = "merge" /\ UNCHANGED exitCode
       ELSE rpc' = "exit" /\ exitCode' = 1
    /\ UNCHANGED <<folder, md5Available, ORIGINAL_FILENAME, TOTAL_PARTS,
                   rIdx, CHECKSUMS_OK, merged>>
    /\ UNCHANGED backupVars

\* cat ${ORIGINAL_FILENAME}.* and gunzip -k: gunzip fails on damaged
\* input, and set -e then ends the script with its status.
RestoreMerge ==
    /\ rpc = "merge"
    /\ merged' = TRUE
    /\ rpc' = "exit"
    /\ exitCode' = IF \E n \in DOMAIN folder : folder[n] = Corrupt
                   THEN 1 ELSE 0
    /\ UNCHANGED <<folder, md5Available, ORIGINAL_FILENAME, TOTAL_PARTS,
                   rIdx, CHECKSUMS_OK>>
    /\ UNCHANGED backupVars

Next ==
    \/ Mkdir
    \/ DumpDatabase
    \/ CompressFile
    \/ StatCompressed
    \/ SplitStat
    \/ SplitChunk
    \/ SplitReturn
    \/ ChecksumPart
    \/ ChecksumWhole
    \/ WriteManifest
    \/ BeginPartUpload
    \/ BeginManifestUpload
    \/ UploadAttempt
    \/ Sleep
    \/ RetryOrThrow
    \/ RollbackDelete
    \/ RollbackRethrow
    \/ CleanupTempDir
    \/ Download
    \/ RestoreStart
    \/ RestoreVerifyPart
    \/ RestoreVerdict
    \/ RestoreMerge

Spec == Init /\ [][Next]_vars

\* The steps of backup() itself.
BackupNext ==
    \/ Mkdir
    \/ DumpDatabase
    \/ CompressFile
    \/ StatCompressed
    \/ SplitStat
    \/ SplitChunk
    \/ SplitReturn
    \/ ChecksumPart
    \/ ChecksumWhole
    \/ WriteManifest
    \/ BeginPartUpload
    \/ BeginManifestUpload
    \/ UploadAttempt
    \/ Sleep
    \/ RetryOrThrow
    \/ RollbackDelete
    \/ RollbackRethrow
    \/ CleanupTempDir

\* Every step of backup() is one awaited call (a file operation, a store
\* request, a timer) that returns or throws, so a run that can take a step
\* eventually takes one.  Nothing obliges the user to restore.
FairSpec == Spec /\ WF_vars(BackupNext)

\* The run is over: backup() has resolved or rejected.
Done == pc = "done"
Resolved == Done /\ runError = NoError
Rejected == Done /\ runError # NoError

\* ================================================================== claims
\* Names in upload order, and the events of the trace.
UploadNames == [j \in 1..Len(filesToUpload) |-> filesToUpload[j].name]
PartNames == {filesToUpload[j].name : j \in 1..Len(filesToUpload)}

IsUpload(e) == e.op = "upload"
IsDelete(e) == e.op = "delete"
IsSleep(e) == e.op = "sleep"

\* The names of the events of a sequence, in order.
NamesOf(events) == [j \in 1..Len(events) |-> events[j].name]

DeletedNames == NamesOf(SelectSeq(trace, IsDelete))

\* A successful upload of n happened before position k of the trace.
UploadedBefore(n, k) ==
    \E j \in 1..(k - 1) : trace[j] = UploadEvent(n, TRUE)

\* The rollback was started by the permanent failure of a part (not of the
\* manifest); the failed part is then part i.
PartFailed == caught # NoError /\ ~ManifestStep
ManifestFailed == caught # NoError /\ ManifestStep
RollbackOver == pc \in {"finally", "done"} /\ failedStage = "upload"

\* C1: no upload attempt for manifest.json is made unless every one of the
\* n part uploads of the run has already succeeded.
C1_ManifestAfterAllParts ==
    \A k \in 1..Len(trace) :
        (IsUpload(trace[k]) /\ trace[k].name = manifestName)
            => /\ Len(filesToUpload) >= 1
               /\ Len(filesToUpload) = manifest.totalParts
               /\ \A n \in PartNames : UploadedBefore(n, k)

\* C1 witness: the manifest is attempted in a run of three parts in which
\* some part attempt had failed before.
C1_Witness ==
    /\ Len(filesToUpload) = 3
    /\ \E k \in 1..Len(trace) :
          /\ trace[k] = UploadEvent(manifestName, FALSE)
          /\ \E j \in 1..(k - 1) :
                IsUpload(trace[j]) /\ ~trace[j].ok
                    /\ trace[j].name # manifestName

\* C2 as stated: after part k failed permanently, the rollback has removed
\* exactly the first k-1 parts from the remote folder, and no part >= k and
\* no manifest is present.
C2_Original ==
    (RollbackOver /\ PartFailed)
        => /\ DeletedNames = SubSeq(UploadNames, 1, i - 1)
           /\ \A j \in 1..(i - 1) : UploadNames[j] \notin remote
           /\ \A j \in i..Len(UploadNames) : UploadNames[j] \notin remote
           /\ manifestName \notin remote

\* C2 amended: after part k failed permanently, the rollback issues one
\* delete for each of the first k-1 parts and for nothing else, each of
\* them is gone from the remote folder unless its delete failed, and no
\* part >= k and no manifest is ever present from the failure on.
C2_RollbackOfFirstParts ==
    PartFailed
        => /\ \A j \in i..Len(UploadNames) : UploadNames[j] \notin remote
           /\ manifestName \notin remote
           /\ \A j \in i..Len(UploadNames) :
                 ~UploadedBefore(UploadNames[j], Len(trace) + 1)
           /\ ~UploadedBefore(manifestName, Len(trace) + 1)
           /\ RollbackOver
                 => /\ DeletedNames = SubSeq(UploadNames, 1, i - 1)
                    /\ \A j \in 1..(i - 1) :
                          UploadNames[j] \in remote
                              <=> UploadNames[j] \in deleteFailed

\* C2 witness: part 3 of 3 failed, the rollback is over, one of the two
\* deletes failed and the other removed its part.
C2_Witness ==
    /\ RollbackOver /\ PartFailed
    /\ i = 3 /\ Len(UploadNames) = 3
    /\ UploadNames[1] \in remote
    /\ UploadNames[2] \notin remote

\* C3 as stated: a finished run either has all parts and the manifest in
\* the remote folder, or no file at all, and its workspace is removed.
C3_Original ==
    Done => /\ \/ Resolved /\ remote = PartNames \cup {manifestName}
               \/ Rejected /\ remote = {}
            /\ ~tempDirExists

\* C3 amended: a finished run either succeeded with all parts and the
\* manifest in the remote folder, or failed with no manifest there and
\* with only those uploaded parts left whose rollback delete failed; in
\* both cases the removal of the workspace was attempted once and the
\* workspace is gone unless that removal failed.
C3_TwoEndStates ==
    Done => /\ \/ /\ Resolved
                  /\ Len(filesToUpload) >= 1
                  /\ remote = PartNames \cup {manifestName}
                  /\ deleteFailed = {}
               \/ /\ Rejected
                  /\ manifestName \notin remote
                  /\ remote = deleteFailed
                  /\ remote \subseteq PartNames
            /\ Len(rmLog) = 1
            /\ rmLog[1] => ~tempDirExists

\* C3 witness: a run that failed at the manifest upload with every
\* rollback delete succeeding, and whose workspace was removed.
C3_Witness ==
    /\ Rejected /\ ManifestFailed
    /\ Len(filesToUpload) = 2
    /\ Len(DeletedNames) = 2
    /\ remote = {}
    /\ ~tempDirExists

\* The manifest's successful upload is at position k of the trace.
ManifestUploadedAt(k) == trace[k] = UploadEvent(manifestName, TRUE)

\* C4: in every state, if manifest.json is in the remote folder then every
\* part listed in the manifest is there too, and no remote delete is
\* issued after the manifest upload succeeded.
C4_ManifestImpliesAllParts ==
    /\ manifestName \in remote
          => /\ Len(manifest.parts) >= 1
             /\ \A j \in 1..Len(manifest.parts) :
                   manifest.parts[j].filename \in remote
    /\ \A k \in 1..Len(trace) :
          ManifestUploadedAt(k)
              => \A j \in (k + 1)..Len(trace) : ~IsDelete(trace[j])

\* C4 witness: the manifest of a three-part backup is in the remote folder
\* and the run is over.
C4_Witness ==
    /\ Done
    /\ manifestName \in remote
    /\ Len(manifest.parts) = 3

\* C5 as stated: after backup() completes the workspace directory does not
\* exist, whether the run succeeded or failed at any stage.
C5_Original == Done => ~tempDirExists

\* C5 amended: after backup() completes, on every exit path (success or a
\* failure at any stage) the removal of the workspace was attempted exactly
\* once, and the workspace directory does not exist unless that removal
\* itself failed, its error being ignored.
C5_CleanupAlwaysAttempted ==
    /\ Done => /\ Len(rmLog) = 1
               /\ rmLog[1] => (~tempDirExists /\ tempFiles = <<>>)
    /\ ~Done => rmLog = <<>>

\* C5 witness: a run that failed while writing the third part, leaving
\* part files behind, has completed with its workspace removed.
C5_Witness ==
    /\ Done
    /\ failedStage = "split"
    /\ Len(parts) = 2
    /\ ~tempDirExists

\* The attempts made for file n, in order (TRUE for a success).
AttemptsFor(n) ==
    LET a == SelectSeq(trace, LAMBDA e : IsUpload(e) /\ e.name = n)
    IN [j \in 1..Len(a) |-> a[j].ok]

CallNames == PartNames \cup {manifestName}

\* The call for file n is over: it returned or threw.
CallOver(n) ==
    /\ AttemptsFor(n) # <<>>
    /\ ~(name = n /\ pc \in {"attempt", "sleep", "retry"})

\* C6: for each file, at least 1 and at most 3 attempts are made; no
\* attempt follows a success; a failed attempt is followed by another one
\* while fewer than 3 were made; permanent failure is reported if and only
\* if exactly 3 attempts in a row failed for that file.
C6_AttemptsPerFile ==
    /\ \A n \in CallNames :
          LET a == AttemptsFor(n)
          IN /\ Len(a) <= MAX_UPLOAD_RETRIES
             /\ \A j \in 1..(Len(a) - 1) : ~a[j]
             /\ CallOver(n) => /\ Len(a) >= 1
                               /\ a[Len(a)] \/ Len(a) = MAX_UPLOAD_RETRIES
             /\ (name = n /\ pc = "attempt") => Len(a) = attempt - 1
    /\ caught # NoError
          <=> \E n \in CallNames :
                 /\ CallOver(n)
                 /\ Len(AttemptsFor(n)) = MAX_UPLOAD_RETRIES
                 /\ \A j \in 1..MAX_UPLOAD_RETRIES : ~AttemptsFor(n)[j]

\* C6 witness: in one run a file succeeded at its third attempt and a
\* later file failed all three.
C6_Witness ==
    /\ Len(filesToUpload) >= 2
    /\ AttemptsFor(UploadNames[1]) = <<FALSE, FALSE, TRUE>>
    /\ AttemptsFor(UploadNames[2]) = <<FALSE, FALSE, FALSE>>
    /\ caught # NoError

\* sub occurs in s as a run of consecutive tokens.
Contains(s, sub) ==
    \E k \in 1..(Len(s) - Len(sub) + 1) :
        SubSeq(s, k, k + Len(sub) - 1) = sub

\* C7 as stated: the error of an exhausted upload, which is also the run's
\* terminal error, carries the name of the failed file and the error of
\* the last attempt.
C7_Original ==
    RollbackOver
        => /\ runError = caught
           /\ Contains(runError.message, name)
           /\ Contains(runError.message,
                       callErrors[MAX_UPLOAD_RETRIES].message)

\* C7 amended: the error of an exhausted upload, which is also the run's
\* terminal error, carries the number of attempts and the message of the
\* last (third) attempt's error; it does not carry the name of the file.
C7_ErrorCarriesLastMessage ==
    /\ caught # NoError
          => /\ Len(callErrors) = MAX_UPLOAD_RETRIES
             /\ caught.message =
                   <<"Failed to upload after ", "3", " attempts: ">>
                       \o callErrors[MAX_UPLOAD_RETRIES].message
             /\ ~Contains(caught.message, name)
    /\ RollbackOver => runError = caught /\ caught # NoError

\* C7 witness: a finished run whose second part was exhausted with a last
\* error different from its first one.
C7_Witness ==
    /\ Rejected /\ PartFailed /\ i = 2
    /\ callErrors[1] # callErrors[3]

\* C8: the rollback attempts one delete for every name of the uploaded
\* list, in list order, also when deletes fail, and the run reports the
\* upload failure, never a delete error.
C8_RollbackDeletesAll ==
    /\ DeletedNames = SubSeq(uploadedFiles, 1, r - 1)
    /\ pc = "rollback" => r <= Len(uploadedFiles) + 1
    /\ RollbackOver
          => /\ DeletedNames = uploadedFiles
             /\ runError = ExhaustedError(callErrors[Len(callErrors)])

\* C8 witness: a finished rollback of three files whose first and second
\* deletes failed and whose third succeeded.
C8_Witness ==
    /\ Rejected /\ RollbackOver
    /\ Len(uploadedFiles) = 3
    /\ deleteFailed = {uploadedFiles[1], uploadedFiles[2]}
    /\ remote = deleteFailed

\* ceil(a / b) for positive b.
CeilDiv(a, b) == (a + b - 1) \div b

\* The parts of the run have been produced: splitFile has returned, or the
\* unsplit branch has taken the whole file as its only part.
PartsProduced == manifest # NoManifest

\* C9: with S the compressed size and T the threshold, S <= T gives
\* exactly one part of size S and no split; S > T gives ceil(S/T) parts,
\* all but the last of size T and the last of size S - T*(n-1) in (0, T].
C9_PartSizes ==
    PartsProduced =>
        LET S == compressedSize
            T == CHUNK_SIZE
            n == Len(sizes)
        IN IF S <= T
           THEN /\ parts = <<>>
                /\ Len(manifest.parts) = 1
                /\ manifest.parts[1].size = S
                /\ Len(filesToUpload) = 1
           ELSE /\ n = CeilDiv(S, T)
                /\ Len(parts) = n
                /\ \A j \in 1..(n - 1) : sizes[j] = T
                /\ sizes[n] = S - T * (n - 1)
                /\ sizes[n] > 0 /\ sizes[n] <= T

\* C9 witness: the 13,443,097-byte file has been split into parts of
\* 9,437,184 and 4,005,913 bytes.
C9_Witness ==
    /\ PartsProduced
    /\ compressedSize = 13443097
    /\ sizes = <<9437184, 4005913>>

\* The manifest is complete: every part has its entry.
ManifestBuilt ==
    \/ pc \in {"writeManifest", "uploadLoop", "attempt", "sleep", "retry",
               "rollback"}
    \/ pc = "checksum" /\ i > Len(parts)
    \/ pc \in {"finally", "done"}
          /\ failedStage \in {"none", "writeManifest", "upload"}

\* C10: in every manifest a run builds, parts is non-empty, totalParts is
\* the number of entries, the entries are in split and upload order, and
\* the part sizes add up to totalSize, the size of the compressed file.
C10_ManifestConsistent ==
    ManifestBuilt =>
        LET entries == manifest.parts
        IN /\ Len(entries) >= 1
           /\ manifest.totalParts = Len(entries)
           /\ [j \in 1..Len(entries) |-> entries[j].filename] = UploadNames
           /\ needsSplit =>
                 /\ [j \in 1..Len(entries) |-> entries[j].filename]
                       = [j \in 1..Len(parts) |-> SplitPop(parts[j])]
                 /\ [j \in 1..Len(entries) |-> entries[j].size] = sizes
           /\ SumSeq([j \in 1..Len(entries) |-> entries[j].size])
                 = manifest.totalSize
           /\ manifest.totalSize = compressedSize
           /\ compressedFilename \in DOMAIN tempFiles
                 => manifest.totalSize = FileSize(tempFiles[compressedFilename])

\* C10 witness: the manifest of the 13,443,097-byte file is written to the
\* workspace with two parts and that total size.
C10_Witness ==
    /\ manifestName \in DOMAIN tempFiles
    /\ tempFiles[manifestName] = <<"json", manifest>>
    /\ manifest.totalParts = 2
    /\ manifest.totalSize = 13443097

\* The name restore.sh looks up for part j of a manifest.
RestoreName(doc, j) ==
    PART_FILE(doc.originalFilename, Printf03d(SeqW(doc.totalParts)[j]).text)

\* C11: after a successful run, split or not, part j of the manifest is
\* recorded and uploaded under originalFilename.<j padded to 3 digits>,
\* the name under which restore.sh looks for it.
C11_PartNamesMatchRestore ==
    Resolved =>
        \A j \in 1..manifest.totalParts :
            /\ manifest.parts[j].filename
                  = PartFilename(manifest.originalFilename, j)
            /\ UploadNames[j] = RestoreName(manifest, j)
            /\ RestoreName(manifest, j) \in remote

\* The manifest of the downloaded folder, and the file name of its part j.
FolderManifest == folder[manifestName][2]
ExpectedPart(j) == PartFilename(ORIGINAL_FILENAME, j)

\* Part j of the downloaded folder is there / has the recorded checksum.
PartPresent(j) == ExpectedPart(j) \in DOMAIN folder
PartIntact(j) ==
    /\ PartPresent(j)
    /\ Md5Sum(folder[ExpectedPart(j)])
          = ExpectedChecksum(FolderManifest, ExpectedPart(j))

ReachedMerge == rpc = "merge" \/ merged
RestoreEnded == rpc = "exit" /\ manifestName \in DOMAIN folder

\* C12 as stated: the restore never reaches the merge unless every part
\* 1..totalParts exists and has the checksum recorded in the manifest, and
\* it ends with a non-zero exit before merging otherwise.
C12_Original ==
    /\ ReachedMerge => \A j \in 1..TOTAL_PARTS : PartIntact(j)
    /\ (RestoreEnded /\ \E j \in 1..TOTAL_PARTS : ~PartIntact(j))
          => ~merged /\ exitCode = 1

\* C12 amended: the restore never reaches the merge unless every part
\* 1..totalParts exists and, when md5sum or md5 is installed, has the
\* checksum recorded in the manifest; if a part is missing, or a checksum
\* tool is installed and a checksum differs, it ends with a non-zero exit
\* before merging.  Without a checksum tool the verification is skipped.
C12_VerifiedBeforeMerge ==
    /\ ReachedMerge
          => \A j \in 1..TOTAL_PARTS :
                PartPresent(j) /\ (md5Available => PartIntact(j))
    /\ (RestoreEnded
          /\ \E j \in 1..TOTAL_PARTS :
                ~PartPresent(j) \/ (md5Available /\ ~PartIntact(j)))
          => ~merged /\ exitCode = 1

\* C12 witness: with a checksum tool, a three-part folder whose second
\* part is corrupted was rejected after all three parts were looked at.
C12_Witness ==
    /\ RestoreEnded
    /\ md5Available
    /\ TOTAL_PARTS = 3
    /\ rIdx = 4
    /\ PartPresent(2) /\ ~PartIntact(2)
    /\ ~merged /\ exitCode = 1

\* The state of the upload state machine.  A run that fails before the
\* upload never leaves Idle.
Idle == <<"Idle", 0>>
Uploading(j) == <<"Uploading", j>>
UploadingManifest == <<"UploadingManifest", 0>>
RollingBack == <<"RollingBack", 0>>
DoneState == <<"Done", 0>>
Failed == <<"Failed", 0>>

PhaseOf(p, idx, files, stage) ==
    IF p \in {"uploadLoop", "attempt", "sleep", "retry"}
    THEN IF PartsLoopDone(idx, files) THEN UploadingManifest
         ELSE Uploading(idx)
    ELSE IF p = "rollback" THEN RollingBack
    ELSE IF p \in {"finally", "done"} /\ stage = "none" THEN DoneState
    ELSE IF p \in {"finally", "done"} /\ stage = "upload" THEN Failed
    ELSE Idle

Phase == PhaseOf(pc, i, filesToUpload, failedStage)

\* The name the upload state machine works on in a phase.
PhaseName(ph) ==
    IF ph = UploadingManifest THEN manifestName ELSE UploadNames[ph[2]]

\* C13: remote operations follow Idle -> Uploading(1) -> ... ->
\* Uploading(n) -> UploadingManifest -> Done; every upload attempt is for
\* the file of the current state, the next file is taken only after the
\* current one succeeded, the only other path is from an uploading state
\* to RollingBack -> Failed after a permanent failure, deletes happen in
\* RollingBack only, and Done and Failed are left by no step and followed
\* by no upload or delete.
C13_Step ==
    LET ph == Phase
        ph2 == PhaseOf(pc', i', filesToUpload', failedStage')
        n == Len(filesToUpload)
        grown == trace' # trace
        e == trace'[Len(trace')]
        succeeded == grown /\ e = UploadEvent(PhaseName(ph), TRUE)
    IN /\ grown => /\ trace' = Append(trace, e)
                   /\ IsDelete(e) => ph = RollingBack
                   /\ ~IsDelete(e)
                         => /\ ph[1] \in {"Uploading", "UploadingManifest"}
                            /\ e.name = PhaseName(ph)
       /\ ph2 # ph =>
             \/ ph = Idle /\ ph2 = Uploading(1) /\ ~grown
             \/ /\ ph[1] = "Uploading" /\ ph[2] < n
                /\ ph2 = Uploading(ph[2] + 1) /\ succeeded
             \/ /\ ph = Uploading(n)
                /\ ph2 = UploadingManifest /\ succeeded
             \/ ph = UploadingManifest /\ ph2 = DoneState /\ succeeded
             \/ /\ ph[1] \in {"Uploading", "UploadingManifest"}
                /\ ph2 = RollingBack
                /\ caught' # NoError
                /\ AttemptsFor(PhaseName(ph)) = <<FALSE, FALSE, FALSE>>
             \/ ph = RollingBack /\ ph2 = Failed
       /\ ph \in {DoneState, Failed} => ~grown /\ ph2 = ph

C13_UploadStateMachine == [][C13_Step]_vars

\* C13 witness: a run of three parts went through Uploading(1) and
\* Uploading(2), failed in Uploading(3), rolled back and is Failed.
C13_Witness ==
    /\ Phase = Failed
    /\ pc = "done"
    /\ i = 3
    /\ Len(filesToUpload) = 3
    /\ Len(DeletedNames) = 2

\* The steps before the upload and the error each of them throws.
PreUploadStages ==
    {"mkdir", "dump", "compress", "stat", "split", "checksum",
     "writeManifest"}

StageError(stage) ==
    StepError(CASE stage = "mkdir" -> "MkdirFailed"
                [] stage = "dump" -> "DumpFailed"
                [] stage = "compress" -> "CompressionFailed"
                [] stage = "stat" -> "StatFailed"
                [] stage = "split" -> "SegmentationFailed"
                [] stage = "checksum" -> "ChecksumFailed"
                [] stage = "writeManifest" -> "ManifestWriteFailed")

\* C14: if a step before the upload fails, the remaining steps are
\* skipped: the run goes straight to the cleanup, no upload attempt and no
\* remote delete is made, the remote folder stays empty, and backup()
\* throws the error of the failed step.
C14_PreUploadFailureSkipsUpload ==
    failedStage \in PreUploadStages
        => /\ pc \in {"finally", "done"}
           /\ trace = <<>>
           /\ remote = {}
           /\ uploadedFiles = <<>>
           /\ caught = NoError
           /\ runError = StageError(failedStage)
           /\ failedStage \in {"mkdir", "dump", "compress", "stat"}
                 => manifest = NoManifest /\ parts = <<>>
           /\ failedStage = "mkdir" => ~tempDirExists

\* C14 witness: the checksum of the second part of a split file failed
\* and the run is over.
C14_Witness ==
    /\ Done
    /\ failedStage = "checksum"
    /\ needsSplit
    /\ Len(manifest.parts) = 1
    /\ Len(parts) = 3

\* The md5 digest of some bytes.
Digest(content) == <<"md5", content>>

\* The bytes part j of the compressed file consists of.
PartBytes(j) ==
    IF needsSplit
    THEN Bytes("gz", SumSeq(SubSeq(sizes, 1, j - 1)), sizes[j])
    ELSE Bytes("gz", 0, compressedSize)

UploadPcs == {"uploadLoop", "attempt", "sleep", "retry", "rollback"}

\* C15: no upload attempt is made before the artifact is fully
\* constructed: from the first attempt on, and as long as the workspace is
\* not cleaned up, every part file is completely written, every manifest
\* entry holds the size and the digest of the finished part file, and the
\* manifest with all parts is written to the workspace; what is stored
\* remotely has the recorded digest.
C15_ArtifactBuiltBeforeUpload ==
    /\ trace # <<>>
          => /\ pc \in UploadPcs \cup {"finally", "done"}
             /\ failedStage \in {"none", "upload"}
    /\ pc \in UploadPcs
          => /\ Len(filesToUpload) >= 1
             /\ Len(manifest.parts) = Len(filesToUpload)
             /\ manifest.totalParts = Len(filesToUpload)
             /\ manifestName \in DOMAIN tempFiles
             /\ tempFiles[manifestName] = <<"json", manifest>>
             /\ \A j \in 1..Len(filesToUpload) :
                   LET n == filesToUpload[j].name
                   IN /\ n \in DOMAIN tempFiles
                      /\ tempFiles[n] = PartBytes(j)
                      /\ manifest.parts[j].filename = n
                      /\ manifest.parts[j].size = FileSize(tempFiles[n])
                      /\ manifest.parts[j].checksum = Digest(tempFiles[n])
    /\ \A j \in 1..Len(filesToUpload) :
          filesToUpload[j].name \in DOMAIN remoteBytes
              => /\ j <= Len(manifest.parts)
                 /\ Digest(remoteBytes[filesToUpload[j].name])
                       = manifest.parts[j].checksum

\* C15 witness: the first upload attempt of a three-part run is about to
\* be made.
C15_Witness ==
    /\ pc = "attempt"
    /\ trace = <<>>
    /\ Len(filesToUpload) = 3

\* C16: when the manifest upload fails permanently after all n parts were
\* uploaded, the rollback issues deletes for all n parts and not for
\* manifest.json, which was never recorded as uploaded, and the run fails
\* with the error of the manifest's upload.
C16_ManifestFailureRollsBackParts ==
    ManifestFailed
        => /\ name = manifestName
           /\ uploadedFiles = UploadNames
           /\ AttemptsFor(manifestName) = <<FALSE, FALSE, FALSE>>
           /\ manifestName \notin remote
           /\ \A k \in 1..Len(DeletedNames) : DeletedNames[k] # manifestName
           /\ RollbackOver
                 => /\ DeletedNames = UploadNames
                    /\ runError = ExhaustedError(callErrors[3])

\* C16 witness: the manifest of a three-part run failed for good, all
\* three parts were deleted and the run is over.
C16_Witness ==
    /\ Rejected /\ ManifestFailed
    /\ Len(UploadNames) = 3
    /\ DeletedNames = UploadNames
    /\ deleteFailed = {}

\* The events of the trace that satisfy a test, counted.
UploadCount == Len(SelectSeq(trace, IsUpload))
DeleteCount == Len(SelectSeq(trace, IsDelete))
SleepsFor(n) == Len(SelectSeq(trace, LAMBDA e : IsSleep(e) /\ e.name = n))
FailuresFor(n) ==
    Len(SelectSeq(trace, LAMBDA e : IsUpload(e) /\ e.name = n /\ ~e.ok))

\* The resources of a run stay within their limits.
C17_Limits ==
    /\ \A n \in CallNames : Len(AttemptsFor(n)) <= MAX_UPLOAD_RETRIES
    /\ UploadCount <= MAX_UPLOAD_RETRIES * (Len(filesToUpload) + 1)
    /\ DeleteCount <= Len(filesToUpload)
    /\ Done => Len(rmLog) = 1
    /\ (Done /\ failedStage = "upload")
          => /\ AttemptsFor(name) = <<FALSE, FALSE, FALSE>>
             /\ DeletedNames = uploadedFiles
             /\ runError # NoError

\* C17: every run terminates: whatever fails, the run reaches the end of
\* backup(), after the cleanup, in finitely many steps, with at most 3
\* attempts per file (at most 3*(n+1) in all) and at most n deletes; a
\* failing upload exhausts its attempts, rolls back and returns.
C17_Terminates == <>Done /\ []C17_Limits

\* C17 witness: a finished run of three parts that used all 12 attempts
\* and 3 deletes.
C17_Witness ==
    /\ Done
    /\ Len(filesToUpload) = 3
    /\ UploadCount = 12
    /\ DeleteCount = 3

\* C18: a delay is taken exactly between two attempts for the same file:
\* every delay follows a failed attempt and is followed by an attempt for
\* the same file, two attempts for a file are never made without a delay
\* between them, no delay follows a success or the third failure, and an
\* exhausted file has had exactly 2 delays when the rollback starts.
C18_DelaysBetweenAttempts ==
    /\ \A k \in 1..Len(trace) :
          IsSleep(trace[k])
              => /\ k > 1
                 /\ trace[k - 1] = UploadEvent(trace[k].name, FALSE)
                 /\ trace[k].ms = RETRY_DELAY_MS
                 /\ k < Len(trace)
                       => /\ IsUpload(trace[k + 1])
                          /\ trace[k + 1].name = trace[k].name
    /\ \A k \in 2..Len(trace) :
          (IsUpload(trace[k]) /\ IsUpload(trace[k - 1]))
              => /\ trace[k].name # trace[k - 1].name
                 /\ trace[k - 1].ok
    /\ \A n \in CallNames :
          /\ SleepsFor(n) <= MAX_UPLOAD_RETRIES - 1
          /\ CallOver(n)
                => SleepsFor(n)
                      = IF FailuresFor(n) = MAX_UPLOAD_RETRIES
                        THEN MAX_UPLOAD_RETRIES - 1 ELSE FailuresFor(n)
    /\ caught # NoError => SleepsFor(name) = 2

\* C18 witness: the rollback starts after the second part was exhausted
\* with two delays, the first part having needed one delay.
C18_Witness ==
    /\ pc = "rollback" /\ r = 1
    /\ i = 2
    /\ Len(filesToUpload) >= 2
    /\ SleepsFor(UploadNames[1]) = 1
    /\ SleepsFor(UploadNames[2]) = 2

\* The names of the successful uploads, in order.
SucceededNames ==
    NamesOf(SelectSeq(trace, LAMBDA e : IsUpload(e) /\ e.ok))

C19_Inv ==
    /\ uploadedFiles = SucceededNames
    /\ \A j, k \in 1..Len(uploadedFiles) :
          uploadedFiles[j] = uploadedFiles[k] => j = k

C19_Step ==
    /\ uploadedFiles' # uploadedFiles
          => /\ uploadedFiles' = Append(uploadedFiles, name)
             /\ trace' = Append(trace, UploadEvent(name, TRUE))
    /\ (trace' # trace /\ trace'[Len(trace')] # UploadEvent(name, TRUE))
          => uploadedFiles' = uploadedFiles
    /\ pc = "rollback" => uploadedFiles' = uploadedFiles

\* C19: in every state the uploaded-files list is the sequence of names
\* whose upload has succeeded so far, in upload order and without
\* duplicates; it only grows, by one name appended in the step of that
\* file's successful upload, and no failed attempt and no rollback step
\* changes it.
C19_UploadedFilesList == []C19_Inv /\ [][C19_Step]_vars

\* C19 witness: all four files of a three-part run are recorded, after
\* some failed attempts, and the run is over.
C19_Witness ==
    /\ Resolved
    /\ Len(uploadedFiles) = 4
    /\ UploadCount = 6

C20_Step ==
    /\ (pc' = "rollback" /\ pc # "rollback")
          => caught = NoError /\ DeleteCount = 0
    /\ caught # NoError
          => /\ caught' = caught
             /\ pc' \in {"rollback", "finally", "done"}
             /\ SelectSeq(trace', IsUpload) = SelectSeq(trace, IsUpload)
    /\ rmLog # <<>> => trace' = trace
    /\ rmLog' # rmLog => pc' = "done"

\* C20: the rollback is entered at most once per run, no upload attempt
\* (for a remaining part or for the manifest) is made once it has started,
\* and the workspace is cleaned up only after the last upload or delete.
C20_RollbackOnceThenNoUpload == [][C20_Step]_vars

\* C20 witness: the first of three parts failed for good, nothing was to
\* delete, no other file was attempted and the workspace is removed.
C20_Witness ==
    /\ Done
    /\ failedStage = "upload"
    /\ i = 1
    /\ Len(filesToUpload) = 3
    /\ UploadCount = 3
    /\ rmLog = <<TRUE>>

====
